---- MODULE Spec2Model ----
(***************************************************************************)
(* Model of the in-memory stream broker of streaming_system.py             *)
(* (StreamBroker: create_topic, publish, consume, add_consumer,            *)
(* get_topic_stats) as called concurrently by several threads, and of the   *)
(* classes built on it: StreamProducer (send, send_batch), StreamConsumer   *)
(* (subscribe, start_consuming, stop_consuming) and StreamProcessor         *)
(* (add_processor, stop_all_processors).                                    *)
(*                                                                         *)
(* The broker lock is a threading.Lock: it is not reentrant, and a thread  *)
(* that asks for it while any thread (itself included) holds it waits.     *)
(* Every operation is cut into the steps between which another thread may  *)
(* run: the call, the acquisition of the lock, the statements executed     *)
(* under the lock, the release of the lock and the return.                 *)
(***************************************************************************)
EXTENDS Integers, Sequences, FiniteSets, TLC

(***************************************************************************)
(* Bounds of the model.                                                    *)
(***************************************************************************)
\* publish calls made in one behaviour (one StreamMessage is built per call)
MaxRecords == 2
\* publish calls made in one behaviour of RegistrySpec
MaxRegistryRecords == 1
\* add_consumer calls made in one behaviour
MaxAddConsumer == 1
\* add_consumer calls made by the subscribe calls of one behaviour
MaxSubscribe == 2
\* add_processor calls made in one behaviour of the pipeline
MaxProcessors == 1
\* add_processor calls made in one behaviour of the bookkeeping
MaxRebinds == 2
\* items of the longest list given to send_batch
MaxBatch == 2
\* items of all the lists given to send_batch in one behaviour
MaxBatchRecords == 2

Threads == {"T1", "T2"}
\* the threads made by threading.Thread(target=consumer.start_consuming)
Workers == {"W1", "W2"}
TopicNames == {"t1", "t2"}
Keys == {"a", "b"}
\* the group_id each thread passes to consume
GroupOf == [t \in Threads |-> IF t = "T1" THEN "g1" ELSE "g2"]
ConsumerHandles == {"c1", "c2"}
\* values given as the partitions argument of create_topic
PartitionArgs == {0, 1, 2}
\* the keys f"key_{i}" of send_batch, for i = 0, 1, ...
BatchKeys == <<"key_0", "key_1", "key_2">>

(***************************************************************************)
(* Program constants.                                                      *)
(***************************************************************************)
\* create_topic(self, topic, partitions=1)
DefaultPartitions == 1
\* consume(self, topic, group_id, max_messages=10)
DefaultMaxMessages == 10
\* StreamMessage.partition: int = 0
InitialPartition == 0

\* values given as the max_messages argument of consume
MaxMessagesArgs == {0, 1, DefaultMaxMessages}

NoThread == "none"

VARIABLES
    topics,      \* StreamBroker.topics: name -> [partitions, messages]
    consumers,   \* StreamBroker.consumers: name -> list of consumer handles
    lock,        \* StreamBroker.lock: the thread holding it, or NoThread
    th,          \* per thread: position and local variables of its call
    nextId,      \* number of StreamMessage objects built so far
    numAdds,     \* number of add_consumer calls made so far
    appendLog,   \* history: the records appended to a log, in order of the append
    returned,    \* history: per record id, how often a consume call returned it
    client,      \* per thread: position and local variables of the producer,
                 \* consumer or processor code it runs
    cons,        \* the StreamConsumer objects: running, subscribed_topics, ...
    processors,  \* StreamProcessor.processors: name -> its bookkeeping entry
    handled,     \* history: per consumer, the calls of its message handler
    delivered    \* history: per consumer, the records consume returned to it

vars == <<topics, consumers, lock, th, nextId, numAdds,
          appendLog, returned, client, cons, processors, handled, delivered>>

broker == <<topics, consumers>>
history == <<appendLog, returned>>
clients == <<client, cons, processors, handled, delivered>>

(***************************************************************************)
(* Python arithmetic and list indexing.                                    *)
(***************************************************************************)
\* a % b of Python for b # 0: the result has the sign of b
PyMod(a, b) == IF b > 0 THEN a % b ELSE -((-a) % (-b))

\* lst[i] of a list of length len is defined for -len <= i < len
PyIndexValid(len, i) == -len <= i /\ i < len

\* the position (from 1) of lst[i] in a list of length len
PyIndexPos(len, i) == IF i >= 0 THEN i + 1 ELSE len + i + 1

Min(a, b) == IF a <= b THEN a ELSE b
Max(a, b) == IF a >= b THEN a ELSE b

\* len(lst[:n])
PySliceLen(len, n) == IF n >= 0 THEN Min(n, len) ELSE Max(len + n, 0)

\* lst[:n]
Take(s, n) == SubSeq(s, 1, PySliceLen(Len(s), n))

\* a deletion that leaves the last of the k records in the list
DropAllButLast(s, k) == IF k = 0 THEN s ELSE SubSeq(s, k, Len(s))

\* lst after del lst[:k]
Drop(s, k) == SubSeq(s, k + 1, Len(s))

\* [[] for _ in range(partitions)]
EmptyLogs(partitions) == [i \in 1..Max(partitions, 0) |-> <<>>]

RECURSIVE SumLen(_)
\* sum(len(partition) for partition in data['messages'])
SumLen(logs) == IF logs = <<>> THEN 0 ELSE Len(Head(logs)) + SumLen(Tail(logs))

(***************************************************************************)
(* StreamMessage and the local variables of a call.                        *)
(***************************************************************************)
\* id stands for the identity of the object; the value is opaque (an
\* integer names it) and the timestamp is not modelled
StreamMessage(id, topic, key, value) ==
    [id |-> id, topic |-> topic, key |-> key, value |-> value,
     partition |-> InitialPartition]

NoMessage == StreamMessage(0, "", "", 0)

\* a thread outside any call. The arguments of a call are local to the
\* calling thread until the call reads them under the lock, so the model
\* draws them there.
IdleFrame ==
    [pc |-> "idle", caller |-> "none", topic |-> "", message |-> NoMessage,
     partitions |-> 0, n |-> 0, consumer |-> "", idx |-> 0, messages |-> <<>>,
     stats |-> <<>>, before |-> <<>>, missing |-> FALSE, ok |-> FALSE]

\* a thread that runs no producer, consumer or processor code
NoClient ==
    [pc |-> "none", topic |-> "", key |-> "", value |-> 0, consumer |-> "",
     name |-> "", output |-> "", i |-> 0, count |-> 0, sent |-> 0,
     left |-> {}, inbox |-> <<>>, done |-> <<>>]

\* StreamConsumer.__init__; handler is "none" (None), "user" (a function
\* given to set_message_handler) or "processor" (the message_handler of
\* add_processor, which sends to `output`); started and stopped record that
\* a thread was started on start_consuming and that stop_consuming was called
NewConsumer ==
    [group_id |-> "", subscribed_topics |-> {}, running |-> FALSE,
     handler |-> "none", output |-> "", started |-> FALSE, stopped |-> FALSE]

\* the topics and the registry made by create_topic calls that gave the
\* partition counts `counts`
Created(counts) ==
    /\ topics = [name \in DOMAIN counts |->
                   [partitions |-> counts[name],
                    messages |-> EmptyLogs(counts[name])]]
    /\ consumers = [name \in DOMAIN counts |-> <<>>]

Init ==
    /\ Created(<<>>)
    /\ lock = NoThread
    /\ th = [t \in Threads \cup Workers |-> IdleFrame]
    /\ nextId = 0
    /\ numAdds = 0
    /\ appendLog = <<>>
    /\ returned = [i \in {} |-> 0]
    /\ client = [t \in Threads \cup Workers |-> NoClient]
    /\ cons = [c \in ConsumerHandles |-> NewConsumer]
    /\ processors = <<>>
    /\ handled = [c \in ConsumerHandles |-> <<>>]
    /\ delivered = [c \in ConsumerHandles |-> <<>>]

\* the frame of a thread whose broker call has returned: a thread that
\* called the broker itself is idle again; a call made by producer, consumer
\* or processor code leaves its return value to that code, which also has
\* the StreamMessage it built for the call
Back(t, ok, messages) ==
    IF client[t].pc = "none" THEN IdleFrame
    ELSE [IdleFrame EXCEPT !.pc = "returned", !.ok = ok, !.messages = messages,
                           !.message = th[t].message]

\* a thread calls an operation that starts with `with self.lock:`
Call(t, entry) ==
    /\ th[t].pc = "idle"
    /\ client[t].pc = "none"
    /\ th' = [th EXCEPT ![t].pc = entry]
    /\ UNCHANGED <<broker, lock, nextId, numAdds, history, clients>>

(***************************************************************************)
(* The lock.                                                               *)
(***************************************************************************)
\* a lock that excludes nobody
LockAlwaysAvailable(t) == TRUE

\* threading.Lock.acquire succeeds only while nobody holds the lock
LockAvailable(t) == lock = NoThread

\* `with self.lock:` at position `at`: the thread waits there for the lock
Waiting(t, at) == th[t].pc = at

(***************************************************************************)
(* create_topic                                                            *)
(***************************************************************************)
CallCreateTopic(t) == Call(t, "create_acquire")

\* with self.lock (called by a thread, or by publish under its own with)
CreateTopicAcquire(t) ==
    /\ Waiting(t, "create_acquire")
    /\ LockAvailable(t)
    /\ lock' = t
    /\ IF th[t].caller = "publish"
       THEN th' = [th EXCEPT ![t].pc = "create_body"]
       ELSE \E name \in TopicNames, p \in PartitionArgs :
               th' = [th EXCEPT ![t].pc = "create_body", ![t].caller = "thread",
                                ![t].topic = name, ![t].partitions = p]
    /\ UNCHANGED <<broker, nextId, numAdds, history, clients>>

\* self.topics after self.topics[topic] = {'partitions': ..., 'messages': ...}
NewTopic(name, partitions) ==
    (name :> [partitions |-> partitions, messages |-> EmptyLogs(partitions)])
        @@ topics

\* a create_topic that does not look for the topic
TopicAlwaysNew(name) == TRUE

\* if topic not in self.topics
TopicIsNew(name) == name \notin DOMAIN topics

\* the statements of create_topic under the lock
CreateTopicBody(t) ==
    /\ th[t].pc = "create_body"
    /\ LET name == th[t].topic IN
       IF TopicIsNew(name)
       THEN /\ topics' = NewTopic(name, th[t].partitions)
            /\ consumers' = (name :> <<>>) @@ consumers
            /\ th' = [th EXCEPT ![t].pc = "create_exit", ![t].missing = TRUE]
       ELSE /\ th' = [th EXCEPT ![t].pc = "create_exit", ![t].missing = FALSE]
            /\ UNCHANGED broker
    /\ UNCHANGED <<lock, nextId, numAdds, history, clients>>

\* leaving the with block releases the lock; create_topic returns None, to
\* the thread or to publish
CreateTopicExit(t) ==
    /\ th[t].pc = "create_exit"
    /\ lock' = NoThread
    /\ th' = IF th[t].caller = "publish"
             THEN [th EXCEPT ![t].pc = "publish_append"]
             ELSE [th EXCEPT ![t] = IdleFrame]
    /\ UNCHANGED <<broker, nextId, numAdds, history, clients>>

(***************************************************************************)
(* publish                                                                 *)
(***************************************************************************)
\* publish calls made so far: the messages built and the calls still waiting
PublishCalls ==
    nextId + Cardinality({u \in Threads : th[u].pc = "publish_acquire"})

CallPublish(t) ==
    /\ PublishCalls < MaxRecords
    /\ Call(t, "publish_acquire")

RegistryCallPublish(t) ==
    /\ PublishCalls < MaxRegistryRecords
    /\ Call(t, "publish_acquire")

\* the arguments of StreamMessage(...): those of StreamProducer.send when
\* producer or processor code publishes, any topic and key (and a value of
\* its own) when a thread calls publish itself
PublishTopics(t) == IF client[t].pc = "none" THEN TopicNames ELSE {client[t].topic}
PublishKeys(t) == IF client[t].pc = "none" THEN Keys ELSE {client[t].key}
PublishValue(t, id) == IF client[t].pc = "none" THEN id ELSE client[t].value

\* with self.lock, for a StreamMessage the caller built for this call (as
\* StreamProducer.send does)
PublishAcquire(t) ==
    /\ Waiting(t, "publish_acquire")
    /\ LockAvailable(t)
    /\ lock' = t
    /\ nextId' = nextId + 1
    /\ \E name \in PublishTopics(t), k \in PublishKeys(t) :
          th' = [th EXCEPT ![t].pc = "publish_check", ![t].topic = name,
                     ![t].message = StreamMessage(nextId + 1, name, k,
                                                  PublishValue(t, nextId + 1))]
    /\ UNCHANGED <<broker, numAdds, history, clients>>

\* if message.topic not in self.topics: self.create_topic(message.topic),
\* a call made while this thread holds the lock
PublishCheck(t) ==
    /\ th[t].pc = "publish_check"
    /\ th' = IF th[t].topic \notin DOMAIN topics
             THEN [th EXCEPT ![t].pc = "create_acquire",
                             ![t].caller = "publish",
                             ![t].partitions = DefaultPartitions]
             ELSE [th EXCEPT ![t].pc = "publish_append"]
    /\ UNCHANGED <<broker, lock, nextId, numAdds, history, clients>>

\* hash(message.key): the hash of a str is a signed integer that is fixed
\* for the run of the process; key "a" stands for the keys of negative odd
\* hash, key "b" for those of positive even hash; the keys of send_batch
\* have a negative even and a positive odd hash
PyHash(key) ==
    CASE key = "a" -> -3
      [] key = "b" -> 4
      [] key = "key_0" -> -6
      [] key = "key_1" -> 5
      [] key = "key_2" -> 8

\* a partition drawn from the number of records published so far
PartitionByCount(key, count) == PyMod(Len(appendLog), count)

\* hash(message.key) % self.topics[message.topic]['partitions']
Partition(key, count) == PyMod(PyHash(key), count)

\* ZeroDivisionError of the modulo, or IndexError of ['messages'][partition]
PublishRaises(name, key) ==
    LET count == topics[name].partitions IN
    \/ count = 0
    \/ ~PyIndexValid(Len(topics[name].messages), Partition(key, count))

\* an append that always goes to the first log
LogPosFirst(name, partition) == 1

\* the log ['messages'][partition] (counted from 1)
LogPos(name, partition) == PyIndexPos(Len(topics[name].messages), partition)

\* an insertion at the head of the list
LogPrepend(log, m) == <<m>> \o log

\* list.append
LogAppend(log, m) == Append(log, m)

\* a publish that reports success whatever happened
PublishResultTrue(raised) == TRUE

\* return True at the end of the try block, return False in the except block
PublishResult(raised) == ~raised

\* partition = ...; message.partition = partition; ...[partition].append(message)
PublishAppend(t) ==
    /\ th[t].pc = "publish_append"
    /\ LET name == th[t].topic
           m == th[t].message
       IN IF PublishRaises(name, m.key)
          THEN /\ th' = [th EXCEPT ![t].pc = "publish_exit",
                                      ![t].ok = PublishResult(TRUE)]
               /\ UNCHANGED <<topics, appendLog>>
          ELSE LET p == Partition(m.key, topics[name].partitions)
                   stored == [m EXCEPT !.partition = p]
                   pos == LogPos(name, p)
               IN /\ topics' = [topics EXCEPT ![name].messages[pos] = LogAppend(@, stored)]
                  /\ appendLog' = Append(appendLog, stored)
                  /\ th' = [th EXCEPT ![t].pc = "publish_exit",
                                      ![t].ok = PublishResult(FALSE),
                                      ![t].message = stored]
    /\ UNCHANGED <<consumers, lock, nextId, numAdds, returned, clients>>

\* return True, or except: return False; either way the with block is left
\* and the lock released
PublishExit(t) ==
    /\ th[t].pc = "publish_exit"
    /\ lock' = IF lock = t THEN NoThread ELSE lock
    /\ th' = [th EXCEPT ![t] = Back(t, th[t].ok, <<>>)]
    /\ UNCHANGED <<broker, nextId, numAdds, history, clients>>

(***************************************************************************)
(* consume                                                                 *)
(***************************************************************************)
\* messages = []
CallConsume(t) == Call(t, "consume_acquire")

\* the arguments of consume: any when a thread calls it itself,
\* broker.consume(topic, self.group_id) when a poll loop calls it
ConsumeTopics(t) == IF client[t].pc = "none" THEN TopicNames ELSE {client[t].topic}
ConsumeMax(t) ==
    IF client[t].pc = "none" THEN MaxMessagesArgs ELSE {DefaultMaxMessages}

\* a lookup that finds every name
TopicAlwaysKnown(name) == TRUE

\* if topic in self.topics
TopicKnown(name) == name \in DOMAIN topics

\* with self.lock; if topic in self.topics: start the loop over the logs
ConsumeAcquire(t) ==
    /\ Waiting(t, "consume_acquire")
    /\ LockAvailable(t)
    /\ lock' = t
    /\ \E name \in ConsumeTopics(t), n \in ConsumeMax(t) :
          th' = [th EXCEPT
                   ![t].pc = IF TopicKnown(name) THEN "consume_loop"
                                                       ELSE "consume_exit",
                   ![t].topic = name, ![t].n = n, ![t].idx = 1,
                   ![t].messages = <<>>,
                   ![t].before = IF name \in DOMAIN topics
                                 THEN topics[name].messages ELSE <<>>]
    /\ UNCHANGED <<broker, nextId, numAdds, history, clients>>

\* a slice of one record more
ConsumedOneMore(log, n) == Take(log, n + 1)

\* consumed = partition_messages[:max_messages]
Consumed(log, n) == Take(log, n)

\* one iteration of `for partition_messages in ...['messages']`: extend
\* messages by the consumed records and delete them from the log
ConsumeLoop(t) ==
    /\ th[t].pc = "consume_loop"
    /\ LET name == th[t].topic
           i == th[t].idx
       IN IF i > Len(topics[name].messages)
          THEN /\ th' = [th EXCEPT ![t].pc = "consume_exit"]
               /\ UNCHANGED topics
          ELSE LET log == topics[name].messages[i]
                   consumed == IF log # <<>> THEN Consumed(log, th[t].n) ELSE <<>>
               IN /\ topics' = [topics EXCEPT
                                  ![name].messages[i] = Drop(log, Len(consumed))]
                  /\ th' = [th EXCEPT ![t].idx = i + 1,
                                      ![t].messages = @ \o consumed]
    /\ UNCHANGED <<consumers, lock, nextId, numAdds, history, clients>>

\* leaving the with block releases the lock
ConsumeExit(t) ==
    /\ th[t].pc = "consume_exit"
    /\ lock' = NoThread
    /\ th' = [th EXCEPT ![t] = [IdleFrame EXCEPT !.pc = "consume_return",
                                              !.messages = th[t].messages]]
    /\ UNCHANGED <<broker, nextId, numAdds, history, clients>>

\* the numbers of returns after a call has returned the records of `result`
CountReturn(result) ==
    LET ids == {result[i].id : i \in 1..Len(result)}
        times(id) == Cardinality({i \in 1..Len(result) : result[i].id = id})
        old(id) == IF id \in DOMAIN returned THEN returned[id] ELSE 0
    IN [id \in DOMAIN returned \cup ids |-> old(id) + times(id)]

\* return messages
ConsumeReturn(t) ==
    /\ th[t].pc = "consume_return"
    /\ returned' = CountReturn(th[t].messages)
    /\ th' = [th EXCEPT ![t] = Back(t, FALSE, th[t].messages)]
    /\ UNCHANGED <<broker, lock, nextId, numAdds, appendLog, clients>>

(***************************************************************************)
(* get_topic_stats                                                         *)
(***************************************************************************)
\* stats = {}
CallGetTopicStats(t) == Call(t, "stats_acquire")

\* with self.lock; start `for topic, data in self.topics.items()`
GetTopicStatsAcquire(t) ==
    /\ Waiting(t, "stats_acquire")
    /\ LockAvailable(t)
    /\ lock' = t
    /\ th' = [th EXCEPT ![t].pc = "stats_loop", ![t].stats = <<>>]
    /\ UNCHANGED <<broker, nextId, numAdds, history, clients>>

\* stats[topic] of one iteration
TopicStats(name) ==
    [partitions |-> topics[name].partitions,
     total_messages |-> SumLen(topics[name].messages),
     consumers |-> IF name \in DOMAIN consumers THEN Len(consumers[name]) ELSE 0]

\* one iteration of the loop over the topics. The dictionary yields its keys
\* in the order of their insertion; the model lets the loop take the topics
\* not yet visited in any order.
GetTopicStatsLoop(t) ==
    /\ th[t].pc = "stats_loop"
    /\ LET left == DOMAIN topics \ DOMAIN th[t].stats IN
       IF left = {}
       THEN th' = [th EXCEPT ![t].pc = "stats_exit"]
       ELSE \E name \in left :
               th' = [th EXCEPT ![t].stats = (name :> TopicStats(name)) @@ @]
    /\ UNCHANGED <<broker, lock, nextId, numAdds, history, clients>>

\* leaving the with block releases the lock; return stats
GetTopicStatsExit(t) ==
    /\ th[t].pc = "stats_exit"
    /\ lock' = NoThread
    /\ th' = [th EXCEPT ![t] = IdleFrame]
    /\ UNCHANGED <<broker, nextId, numAdds, history, clients>>

(***************************************************************************)
(* add_consumer (takes no lock)                                            *)
(***************************************************************************)
CallAddConsumer(t) ==
    /\ th[t].pc = "idle"
    /\ client[t].pc = "none"
    /\ numAdds < MaxAddConsumer
    /\ numAdds' = numAdds + 1
    /\ \E name \in TopicNames, c \in ConsumerHandles :
          th' = [th EXCEPT ![t].pc = "add_check", ![t].topic = name,
                           ![t].consumer = c]
    /\ UNCHANGED <<broker, lock, nextId, history, clients>>

\* if topic not in self.consumers
AddConsumerCheck(t) ==
    /\ th[t].pc = "add_check"
    /\ th' = [th EXCEPT ![t].pc = IF th[t].topic \notin DOMAIN consumers
                                  THEN "add_init" ELSE "add_append"]
    /\ UNCHANGED <<broker, lock, nextId, numAdds, history, clients>>

\* self.consumers[topic] = []
AddConsumerInit(t) ==
    /\ th[t].pc = "add_init"
    /\ consumers' = (th[t].topic :> <<>>) @@ consumers
    /\ th' = [th EXCEPT ![t].pc = "add_append"]
    /\ UNCHANGED <<topics, lock, nextId, numAdds, history, clients>>

\* self.consumers[topic].append(consumer)
AddConsumerAppend(t) ==
    /\ th[t].pc = "add_append"
    /\ consumers' = [consumers EXCEPT ![th[t].topic] = Append(@, th[t].consumer)]
    /\ th' = [th EXCEPT ![t] = Back(t, FALSE, <<>>)]
    /\ UNCHANGED <<topics, lock, nextId, numAdds, history, clients>>

(***************************************************************************)
(* Specifications.                                                         *)
(***************************************************************************)
CreateTopicSteps(t) ==
    \/ CreateTopicAcquire(t)
    \/ CreateTopicBody(t)
    \/ CreateTopicExit(t)

PublishSteps(t) ==
    \/ PublishAcquire(t)
    \/ PublishCheck(t)
    \/ PublishAppend(t)
    \/ PublishExit(t)

ConsumeSteps(t) ==
    \/ ConsumeAcquire(t)
    \/ ConsumeLoop(t)
    \/ ConsumeExit(t)
    \/ ConsumeReturn(t)

GetTopicStatsSteps(t) ==
    \/ GetTopicStatsAcquire(t)
    \/ GetTopicStatsLoop(t)
    \/ GetTopicStatsExit(t)

AddConsumerSteps(t) ==
    \/ AddConsumerCheck(t)
    \/ AddConsumerInit(t)
    \/ AddConsumerAppend(t)

\* the next step of a thread that is inside a call
Proceed(t) ==
    \/ CreateTopicSteps(t)
    \/ PublishSteps(t)
    \/ ConsumeSteps(t)
    \/ GetTopicStatsSteps(t)
    \/ AddConsumerSteps(t)

\* threads calling create_topic, publish, consume and get_topic_stats
Next ==
    \E t \in Threads :
        \/ CallCreateTopic(t)
        \/ CallPublish(t)
        \/ CallConsume(t)
        \/ CallGetTopicStats(t)
        \/ CreateTopicSteps(t)
        \/ PublishSteps(t)
        \/ ConsumeSteps(t)
        \/ GetTopicStatsSteps(t)

Spec == Init /\ [][Next]_vars

\* threads calling create_topic, publish, add_consumer and get_topic_stats
RegistryNext ==
    \E t \in Threads :
        \/ CallCreateTopic(t)
        \/ RegistryCallPublish(t)
        \/ CallAddConsumer(t)
        \/ CallGetTopicStats(t)
        \/ CreateTopicSteps(t)
        \/ PublishSteps(t)
        \/ AddConsumerSteps(t)
        \/ GetTopicStatsSteps(t)

RegistrySpec == Init /\ [][RegistryNext]_vars

\* a thread inside a call is scheduled again and again
FairSpec == Spec /\ \A t \in Threads : WF_vars(Proceed(t))

(***************************************************************************)
(* StreamProducer: send and send_batch                                     *)
(***************************************************************************)
\* the items of the send_batch call of thread t that it has still to build
BatchItemsLeft(t) ==
    IF client[t].pc \notin {"batch_loop", "batch_send"} THEN 0
    ELSE client[t].count - Len(client[t].done)
            - (IF th[t].pc \in {"idle", "publish_acquire"} THEN 0 ELSE 1)

\* the items of all the send_batch calls made so far
BatchItems ==
    nextId + BatchItemsLeft("T1") + BatchItemsLeft("T2")

\* send_batch(topic, messages): sent_count = 0
CallSendBatch(t) ==
    /\ th[t].pc = "idle"
    /\ client[t].pc = "none"
    /\ \E name \in TopicNames, count \in 0..MaxBatch :
          /\ BatchItems + count <= MaxBatchRecords
          /\ client' = [client EXCEPT ![t] = [NoClient EXCEPT
                           !.pc = "batch_loop", !.topic = name,
                           !.count = count]]
    /\ UNCHANGED <<broker, lock, th, nextId, numAdds, history,
                   cons, processors, handled, delivered>>

\* for i, msg in enumerate(messages): self.send(topic, f"key_{i}", msg),
\* which builds the StreamMessage and calls broker.publish
BatchLoop(t) ==
    /\ client[t].pc = "batch_loop"
    /\ th[t].pc = "idle"
    /\ IF client[t].i < client[t].count
       THEN /\ client' = [client EXCEPT ![t].pc = "batch_send",
                                        ![t].key = BatchKeys[client[t].i + 1],
                                        ![t].value = client[t].i]
            /\ th' = [th EXCEPT ![t].pc = "publish_acquire"]
       ELSE /\ client' = [client EXCEPT ![t].pc = "batch_return"]
            /\ UNCHANGED th
    /\ UNCHANGED <<broker, lock, nextId, numAdds, history,
                   cons, processors, handled, delivered>>

\* a count that does not look at the result of send
BatchCountAll(sent, ok) == sent + 1

\* if self.send(...): sent_count += 1
BatchCount(sent, ok) == IF ok THEN sent + 1 ELSE sent

\* send returns what publish returned, and the loop goes to the next item
BatchSendReturn(t) ==
    /\ client[t].pc = "batch_send"
    /\ th[t].pc = "returned"
    /\ client' = [client EXCEPT
                    ![t].pc = "batch_loop",
                    ![t].i = @ + 1,
                    ![t].sent = BatchCount(@, th[t].ok),
                    ![t].done = Append(@, [id |-> th[t].message.id,
                                           ok |-> th[t].ok])]
    /\ th' = [th EXCEPT ![t] = IdleFrame]
    /\ UNCHANGED <<broker, lock, nextId, numAdds, history,
                   cons, processors, handled, delivered>>

\* return sent_count
BatchReturn(t) ==
    /\ client[t].pc = "batch_return"
    /\ client' = [client EXCEPT ![t] = NoClient]
    /\ UNCHANGED <<broker, lock, th, nextId, numAdds, history,
                   cons, processors, handled, delivered>>

SendBatchSteps(t) ==
    \/ BatchLoop(t)
    \/ BatchSendReturn(t)
    \/ BatchReturn(t)

\* threads calling create_topic and send_batch
ProducerNext ==
    \E t \in Threads :
        \/ CallCreateTopic(t)
        \/ CallSendBatch(t)
        \/ CreateTopicSteps(t)
        \/ SendBatchSteps(t)
        \/ PublishSteps(t)

ProducerSpec == Init /\ [][ProducerNext]_vars

(***************************************************************************)
(* StreamConsumer: subscribe, set_message_handler, start_consuming and     *)
(* stop_consuming                                                          *)
(***************************************************************************)
\* the thread that makes, subscribes, starts and stops consumers and
\* processors, and the consumers it makes itself
Mains == {"T1"}
UserConsumers == {"c1"}
PollWorkers == {"W1"}

\* the lists of topics given to subscribe
SubscribeArgs == {<<name>> : name \in TopicNames}

\* the set of the elements of a list
Range(seq) == {seq[i] : i \in 1..Len(seq)}

\* self.subscribed_topics.update(topics)
Subscribed(c, topicList) ==
    [cons EXCEPT ![c].subscribed_topics = @ \cup Range(topicList)]

\* subscribe(topics) of consumer c
CallSubscribe(t) ==
    /\ th[t].pc = "idle"
    /\ client[t].pc = "none"
    /\ \E c \in UserConsumers, topicList \in SubscribeArgs :
          /\ numAdds + Len(topicList) <= MaxSubscribe
          /\ numAdds' = numAdds + Len(topicList)
          /\ cons' = Subscribed(c, topicList)
          /\ client' = [client EXCEPT ![t] = [NoClient EXCEPT
                           !.pc = "sub_loop", !.consumer = c,
                           !.inbox = topicList]]
    /\ UNCHANGED <<broker, lock, th, nextId, history, processors,
                   handled, delivered>>

\* for topic in topics: self.broker.add_consumer(topic, self); the loop
\* over, subscribe returns to what follows it in the code that called it
SubscribeLoop(t) ==
    /\ client[t].pc = "sub_loop"
    /\ th[t].pc = "idle"
    /\ IF client[t].i < Len(client[t].inbox)
       THEN /\ client' = [client EXCEPT ![t].pc = "sub_add"]
            /\ th' = [th EXCEPT ![t].pc = "add_check",
                                ![t].topic = client[t].inbox[client[t].i + 1],
                                ![t].consumer = client[t].consumer]
       ELSE /\ client' = [client EXCEPT ![t] =
                            IF client[t].name = "" THEN NoClient
                            ELSE [@ EXCEPT !.pc = "addp_register"]]
            /\ UNCHANGED th
    /\ UNCHANGED <<broker, lock, nextId, numAdds, history, cons, processors,
                   handled, delivered>>

\* add_consumer has returned
SubscribeAddReturn(t) ==
    /\ client[t].pc = "sub_add"
    /\ th[t].pc = "returned"
    /\ client' = [client EXCEPT ![t].pc = "sub_loop", ![t].i = @ + 1]
    /\ th' = [th EXCEPT ![t] = IdleFrame]
    /\ UNCHANGED <<broker, lock, nextId, numAdds, history, cons, processors,
                   handled, delivered>>

SubscribeSteps(t) ==
    \/ SubscribeLoop(t)
    \/ SubscribeAddReturn(t)

\* set_message_handler(handler), before the consumer is started
SetMessageHandler(t) ==
    /\ th[t].pc = "idle"
    /\ client[t].pc = "none"
    /\ \E c \in UserConsumers :
          /\ ~cons[c].started
          /\ cons[c].handler = "none"
          /\ cons' = [cons EXCEPT ![c].handler = "user"]
    /\ UNCHANGED <<broker, lock, th, nextId, numAdds, history, client,
                   processors, handled, delivered>>

\* a thread is made for start_consuming of consumer c and started
Started(w, c) ==
    [client EXCEPT ![w] = [NoClient EXCEPT !.pc = "loop_start", !.consumer = c]]

\* threading.Thread(target=consumer.start_consuming).start(), for a
\* consumer that has subscribed
StartConsumer(t) ==
    /\ th[t].pc = "idle"
    /\ client[t].pc = "none"
    /\ \E c \in UserConsumers, w \in PollWorkers :
          /\ ~cons[c].started
          /\ cons[c].subscribed_topics # {}
          /\ client[w].pc = "none"
          /\ cons' = [cons EXCEPT ![c].started = TRUE]
          /\ client' = Started(w, c)
    /\ UNCHANGED <<broker, lock, th, nextId, numAdds, history, processors,
                   handled, delivered>>

\* self.running = True
RunningSet(c) == [cons EXCEPT ![c].running = TRUE]

\* start_consuming: self.running = True
LoopStart(w) ==
    /\ client[w].pc = "loop_start"
    /\ cons' = RunningSet(client[w].consumer)
    /\ client' = [client EXCEPT ![w].pc = "loop_test"]
    /\ UNCHANGED <<broker, lock, th, nextId, numAdds, history, processors,
                   handled, delivered>>

\* while self.running: start a sweep over the subscribed topics, or leave
\* the loop and end the thread
LoopTest(w) ==
    /\ client[w].pc = "loop_test"
    /\ LET c == client[w].consumer IN
       client' = IF cons[c].running
                 THEN [client EXCEPT ![w].pc = "sweep",
                          ![w].left = cons[c].subscribed_topics,
                          ![w].count = Cardinality(cons[c].subscribed_topics)]
                 ELSE [client EXCEPT ![w] = NoClient]
    /\ UNCHANGED <<broker, lock, th, nextId, numAdds, history, cons,
                   processors, handled, delivered>>

\* for topic in self.subscribed_topics: messages = self.broker.consume(...).
\* A set yields its elements in an order of its own; when its size has
\* changed since the loop began, the next iteration raises RuntimeError,
\* which the except clause of the while loop catches.
SweepNext(w) ==
    /\ client[w].pc = "sweep"
    /\ th[w].pc = "idle"
    /\ LET c == client[w].consumer IN
       IF Cardinality(cons[c].subscribed_topics) # client[w].count
       THEN /\ client' = [client EXCEPT ![w].pc = "loop_test", ![w].left = {},
                                        ![w].count = 0]
            /\ UNCHANGED th
       ELSE IF client[w].left = {}
       THEN /\ client' = [client EXCEPT ![w].pc = "sleep", ![w].count = 0]
            /\ UNCHANGED th
       ELSE \E name \in client[w].left :
               /\ client' = [client EXCEPT ![w].pc = "sweep_consume",
                                           ![w].topic = name,
                                           ![w].left = @ \ {name}]
               /\ th' = [th EXCEPT ![w].pc = "consume_acquire"]
    /\ UNCHANGED <<broker, lock, nextId, numAdds, history, cons, processors,
                   handled, delivered>>

\* the list of the ids of a list of records
Ids(seq) == [i \in 1..Len(seq) |-> seq[i].id]

\* consume has returned messages
SweepConsumeReturn(w) ==
    /\ client[w].pc = "sweep_consume"
    /\ th[w].pc = "returned"
    /\ client' = [client EXCEPT ![w].pc = "handle", ![w].topic = "",
                                ![w].inbox = th[w].messages, ![w].i = 0]
    /\ delivered' = [delivered EXCEPT
                       ![client[w].consumer] = @ \o Ids(th[w].messages)]
    /\ th' = [th EXCEPT ![w] = IdleFrame]
    /\ UNCHANGED <<broker, lock, nextId, numAdds, history, cons, processors,
                   handled>>

\* the position of the poll loop after the handler raised: the except
\* clause of the while loop, which ends the sweep
AfterHandlerFault(frame) ==
    [frame EXCEPT !.pc = "loop_test", !.inbox = <<>>, !.i = 0, !.left = {},
                  !.count = 0]

\* a loop that goes through the list from its end
LastMessageFirst(frame) == frame.inbox[Len(frame.inbox) - frame.i]

\* for message in messages: the message the loop is at
NextMessage(frame) == frame.inbox[frame.i + 1]

\* for message in messages: if self.message_handler: the handler of a user
\* is called with the message and returns or raises
HandleMessage(w) ==
    /\ client[w].pc = "handle"
    /\ LET c == client[w].consumer
           i == client[w].i
       IN IF i >= Len(client[w].inbox)
          THEN /\ client' = [client EXCEPT ![w].pc = "sweep", ![w].inbox = <<>>,
                                           ![w].i = 0]
               /\ UNCHANGED handled
          ELSE /\ cons[c].handler # "processor"
               /\ IF cons[c].handler = "none"
                  THEN /\ client' = [client EXCEPT ![w].i = i + 1]
                       /\ UNCHANGED handled
                  ELSE \E ok \in BOOLEAN :
                          /\ handled' = [handled EXCEPT ![c] =
                                Append(@, [id |-> NextMessage(client[w]).id,
                                           ok |-> ok, out |-> 0,
                                           stored |-> FALSE])]
                          /\ client' = [client EXCEPT ![w] =
                                IF ok THEN [@ EXCEPT !.i = i + 1]
                                ELSE AfterHandlerFault(@)]
    /\ UNCHANGED <<broker, lock, th, nextId, numAdds, history, cons,
                   processors, delivered>>

\* time.sleep(0.1)
Sleep(w) ==
    /\ client[w].pc = "sleep"
    /\ client' = [client EXCEPT ![w].pc = "loop_test"]
    /\ UNCHANGED <<broker, lock, th, nextId, numAdds, history, cons,
                   processors, handled, delivered>>

\* stop_consuming: self.running = False
Stopped(c) == [cons EXCEPT ![c].running = FALSE, ![c].stopped = TRUE]

\* stop_consuming() of a consumer for which a thread was started
StopConsuming(t) ==
    /\ th[t].pc = "idle"
    /\ client[t].pc = "none"
    /\ \E c \in UserConsumers :
          /\ cons[c].started
          /\ ~cons[c].stopped
          /\ cons' = Stopped(c)
    /\ UNCHANGED <<broker, lock, th, nextId, numAdds, history, client,
                   processors, handled, delivered>>

\* a broker on which topic t1 was created with two partitions, as main()
\* creates topics before anything else, and topic t2 was not
OneTopicInit ==
    /\ Created("t1" :> 2)
    /\ lock = NoThread
    /\ th = [t \in Threads \cup Workers |-> IdleFrame]
    /\ nextId = 0
    /\ numAdds = 0
    /\ appendLog = <<>>
    /\ returned = [i \in {} |-> 0]
    /\ client = [t \in Threads \cup Workers |-> NoClient]
    /\ cons = [c \in ConsumerHandles |-> NewConsumer]
    /\ processors = <<>>
    /\ handled = [c \in ConsumerHandles |-> <<>>]
    /\ delivered = [c \in ConsumerHandles |-> <<>>]

PollSteps(w) ==
    \/ LoopStart(w)
    \/ LoopTest(w)
    \/ SweepNext(w)
    \/ SweepConsumeReturn(w)
    \/ HandleMessage(w)
    \/ Sleep(w)

\* a thread that publishes, and subscribes, starts and stops a consumer,
\* and the thread of the poll loop
ConsumerNext ==
    \/ \E t \in Mains :
          \/ CallPublish(t)
          \/ CallSubscribe(t)
          \/ SetMessageHandler(t)
          \/ StartConsumer(t)
          \/ StopConsuming(t)
          \/ PublishSteps(t)
          \/ SubscribeSteps(t)
          \/ AddConsumerSteps(t)
    \/ \E w \in PollWorkers :
          \/ PollSteps(w)
          \/ ConsumeSteps(w)

ConsumerSpec == OneTopicInit /\ [][ConsumerNext]_vars

(***************************************************************************)
(* StreamProcessor: add_processor and stop_all_processors                  *)
(***************************************************************************)
ProcessorNames == {"p1"}
\* the input and the output topic given to add_processor
ProcessorTopics == {<<"t1", "t2">>, <<"t2", "t1">>}

\* no processor made so far reads the output topic or writes the input
\* topic: the pipelines of the model do not feed themselves
NoFeedback(io) ==
    \A c \in ConsumerHandles :
        /\ io[2] \notin cons[c].subscribed_topics
        /\ io[1] # cons[c].output

\* transform_func(message.value), when it returns: the function is opaque;
\* it stands for one whose results differ from every value a thread
\* publishes and from each other
Transform(value) == -value

\* the consumer objects not yet made, and the threads not yet started
FreshConsumers == {c \in ConsumerHandles : cons[c] = NewConsumer}
FreeWorkers == {w \in Workers : client[w].pc = "none" /\ th[w].pc = "idle"}

\* add_processor(name, input_topic, output_topic, transform_func): a
\* consumer and a producer are made, the handler is set, and
\* consumer.subscribe([input_topic]) begins
AddProcessorCall(t, most) ==
    /\ th[t].pc = "idle"
    /\ client[t].pc = "none"
    /\ FreshConsumers # {}
    /\ Cardinality(FreeWorkers) > 0
    /\ Cardinality(ConsumerHandles \ FreshConsumers) < most
    /\ \E name \in ProcessorNames, io \in ProcessorTopics :
          LET c == CHOOSE d \in FreshConsumers : TRUE IN
          /\ NoFeedback(io)
          /\ numAdds' = numAdds + 1
          /\ cons' = [cons EXCEPT ![c] = [NewConsumer EXCEPT
                         !.group_id = name, !.handler = "processor",
                         !.output = io[2], !.subscribed_topics = {io[1]}]]
          /\ client' = [client EXCEPT ![t] = [NoClient EXCEPT
                           !.pc = "sub_loop", !.consumer = c, !.name = name,
                           !.inbox = <<io[1]>>, !.output = io[2]]]
    /\ UNCHANGED <<broker, lock, th, nextId, history, processors,
                   handled, delivered>>

CallAddProcessor(t) == AddProcessorCall(t, MaxProcessors)

RebindCallAddProcessor(t) == AddProcessorCall(t, MaxRebinds)

\* a bookkeeping in which the first entry of a name stays
RegisteredFirstWins(name, entry) == processors @@ (name :> entry)

\* self.processors[name] = {...}
Registered(name, entry) == (name :> entry) @@ processors

\* self.processors[name] = {...}; thread = threading.Thread(target=
\* consumer.start_consuming, daemon=True); thread.start()
AddProcessorStart(t) ==
    /\ client[t].pc = "addp_register"
    /\ LET c == client[t].consumer IN
       /\ processors' = Registered(client[t].name,
                           [consumer |-> c, input_topic |-> client[t].inbox[1],
                            output_topic |-> client[t].output])
       /\ cons' = [cons EXCEPT ![c].started = TRUE]
       /\ FreeWorkers # {}
       /\ client' = [Started(CHOOSE w \in FreeWorkers : TRUE, c)
                        EXCEPT ![t] = NoClient]
    /\ UNCHANGED <<broker, lock, th, nextId, numAdds, history,
                   handled, delivered>>

\* stop_all_processors()
CallStopAllProcessors(t) ==
    /\ th[t].pc = "idle"
    /\ client[t].pc = "none"
    /\ \E name \in DOMAIN processors : ~cons[processors[name].consumer].stopped
    /\ client' = [client EXCEPT ![t] = [NoClient EXCEPT
                     !.pc = "stop_all", !.left = DOMAIN processors]]
    /\ UNCHANGED <<broker, lock, th, nextId, numAdds, history, cons,
                   processors, handled, delivered>>

\* for name, processor in self.processors.items():
\*     processor['consumer'].stop_consuming()
StopAllProcessorsLoop(t) ==
    /\ client[t].pc = "stop_all"
    /\ IF client[t].left = {}
       THEN /\ client' = [client EXCEPT ![t] = NoClient]
            /\ UNCHANGED cons
       ELSE \E name \in client[t].left :
               /\ cons' = Stopped(processors[name].consumer)
               /\ client' = [client EXCEPT ![t].left = @ \ {name}]
    /\ UNCHANGED <<broker, lock, th, nextId, numAdds, history,
                   processors, handled, delivered>>

\* a handler whose fault reaches the poll loop
TransformFaultEndsSweep(frame) == AfterHandlerFault(frame)

\* except Exception in message_handler: the handler returns, and the poll
\* loop goes to the next message
AfterTransformFault(frame) == [frame EXCEPT !.i = @ + 1]

\* message_handler(message) of add_processor: transformed_data =
\* transform_func(message.value), which raises or returns; then
\* producer.send(output_topic, message.key, transformed_data)
HandleTransform(w) ==
    /\ client[w].pc = "handle"
    /\ th[w].pc = "idle"
    /\ client[w].i < Len(client[w].inbox)
    /\ LET c == client[w].consumer
           m == NextMessage(client[w])
       IN /\ cons[c].handler = "processor"
          /\ \/ /\ client' = [client EXCEPT ![w] = AfterTransformFault(@)]
                /\ handled' = [handled EXCEPT ![c] =
                      Append(@, [id |-> m.id, ok |-> FALSE, out |-> 0,
                                 stored |-> FALSE])]
                /\ UNCHANGED th
             \/ /\ client' = [client EXCEPT ![w].pc = "handle_send",
                                 ![w].topic = cons[c].output,
                                 ![w].key = m.key,
                                 ![w].value = Transform(m.value)]
                /\ th' = [th EXCEPT ![w].pc = "publish_acquire"]
                /\ UNCHANGED handled
    /\ UNCHANGED <<broker, lock, nextId, numAdds, history, cons, processors,
                   delivered>>

\* producer.send has returned (its result is not looked at), and so does
\* the handler
HandleSendReturn(w) ==
    /\ client[w].pc = "handle_send"
    /\ th[w].pc = "returned"
    /\ handled' = [handled EXCEPT ![client[w].consumer] =
          Append(@, [id |-> NextMessage(client[w]).id, ok |-> TRUE,
                     out |-> th[w].message.id, stored |-> th[w].ok])]
    /\ client' = [client EXCEPT ![w].pc = "handle", ![w].i = @ + 1,
                                ![w].topic = "", ![w].key = "", ![w].value = 0]
    /\ th' = [th EXCEPT ![w] = IdleFrame]
    /\ UNCHANGED <<broker, lock, nextId, numAdds, history, cons, processors,
                   delivered>>

ProcessorSteps(t) ==
    \/ AddProcessorStart(t)
    \/ StopAllProcessorsLoop(t)

HandlerSteps(w) ==
    \/ HandleTransform(w)
    \/ HandleSendReturn(w)

\* the next step of a thread or of a poll loop
Run(t) ==
    \/ Proceed(t)
    \/ SubscribeSteps(t)
    \/ ProcessorSteps(t)
    \/ PollSteps(t)
    \/ HandlerSteps(t)

\* a thread that creates topics, publishes, adds processors and stops them,
\* and the threads of the poll loops of the processors
ProcessorNext ==
    \/ \E t \in Mains :
          \/ CallCreateTopic(t)
          \/ CallPublish(t)
          \/ CallAddProcessor(t)
          \/ CallStopAllProcessors(t)
          \/ CreateTopicSteps(t)
          \/ PublishSteps(t)
          \/ SubscribeSteps(t)
          \/ AddConsumerSteps(t)
          \/ ProcessorSteps(t)
    \/ \E w \in Workers :
          \/ PollSteps(w)
          \/ HandlerSteps(w)
          \/ ConsumeSteps(w)
          \/ PublishSteps(w)
          \/ CreateTopicSteps(w)

ProcessorSpec == OneTopicInit /\ [][ProcessorNext]_vars

\* every thread inside a call or a poll loop is scheduled again and again,
\* and a thread that waits for the lock gets it when the lock is released
\* again and again
FairProcessorSpec ==
    ProcessorSpec /\ \A t \in Mains \cup Workers : SF_vars(Run(t))

\* a thread that creates topics, publishes, adds processors under one name
\* and stops them,
\* and the threads of the poll loops of the processors
RebindNext ==
    \/ \E t \in Mains :
          \/ CallCreateTopic(t)
          \/ RegistryCallPublish(t)
          \/ RebindCallAddProcessor(t)
          \/ CallStopAllProcessors(t)
          \/ CreateTopicSteps(t)
          \/ PublishSteps(t)
          \/ SubscribeSteps(t)
          \/ AddConsumerSteps(t)
          \/ ProcessorSteps(t)
    \/ \E w \in Workers :
          \/ PollSteps(w)
          \/ HandlerSteps(w)
          \/ ConsumeSteps(w)
          \/ PublishSteps(w)
          \/ CreateTopicSteps(w)

RebindSpec == OneTopicInit /\ [][RebindNext]_vars

(***************************************************************************)
(* Vocabulary of the properties.                                           *)
(***************************************************************************)
InCall(t) == th[t].pc # "idle"

\* the records successfully published so far
Published == {appendLog[i] : i \in 1..Len(appendLog)}

\* the place of a published record in the order of publication
PubIndex(id) == CHOOSE i \in 1..Len(appendLog) : appendLog[i].id = id

\* the places <<topic, log, position>> of the partition logs that hold record id
PendingPlaces(id) ==
    UNION {UNION {{<<name, i, j>> :
                      j \in {k \in 1..Len(topics[name].messages[i]) :
                                topics[name].messages[i][k].id = id}} :
                  i \in 1..Len(topics[name].messages)} :
           name \in DOMAIN topics}

\* the places <<thread, position>> of the results of the consume calls in
\* progress that hold record id
InFlightPlaces(id) ==
    UNION {{<<t, i>> : i \in {k \in 1..Len(th[t].messages) :
                                th[t].messages[k].id = id}} :
           t \in Threads}

TimesReturned(id) == IF id \in DOMAIN returned THEN returned[id] ELSE 0

\* in how many results of consume calls (returned or being returned) id is
TimesConsumed(id) == Cardinality(InFlightPlaces(id)) + TimesReturned(id)

Pending(r) == PendingPlaces(r.id) # {}
Returned(r) == TimesReturned(r.id) > 0
SamePartition(r1, r2) == r1.topic = r2.topic /\ r1.partition = r2.partition

\* the records of one partition stand in seq in the order of their publication
InPublishOrder(seq) ==
    \A a, b \in 1..Len(seq) :
        (a < b /\ SamePartition(seq[a], seq[b]))
            => PubIndex(seq[a].id) < PubIndex(seq[b].id)

(***************************************************************************)
(* Properties of the broker.                                               *)
(***************************************************************************)

\* C1: no broker operation blocks for ever. Every loop of the operations is
\* bounded, so a call returns unless it gets stuck: a thread inside a call
\* can take its next step, or it waits for the lock while another thread
\* holds it, and that thread can take its next step.
C1_NoCallBlocksForever ==
    \A t \in Threads :
        InCall(t) =>
            \/ ENABLED Proceed(t)
            \/ lock \notin {NoThread, t} /\ ENABLED Proceed(lock)

\* C2: a publish of a record whose topic is unknown creates the topic with
\* exactly one partition, appends the record to partition 0 and returns
\* True: then the topic exists with partition count 1 and that one record
\* pending.
C2_PublishCreatesUnknownTopic ==
    \A t \in Threads :
        (th[t].pc = "publish_check" /\ th[t].topic \notin DOMAIN topics)
            ~> /\ th[t].pc = "publish_exit"
               /\ th[t].ok
               /\ th[t].topic \in DOMAIN topics
               /\ topics[th[t].topic].partitions = 1
               /\ th[t].message.partition = 0
               /\ topics[th[t].topic].messages = << <<th[t].message>> >>

\* C3: consumption neither duplicates nor loses a record. Every published
\* record is one object; at every point it is either pending in a partition
\* log or in the result of exactly one consume call, never both and never
\* twice; consume returns nothing that was not published; and a consume
\* call that finds every log of its topic empty returns the empty list.
C3_NoDuplicationNoLoss ==
    /\ \A i, j \in 1..Len(appendLog) :
          appendLog[i].id = appendLog[j].id => i = j
    /\ \A id \in 1..nextId :
          Cardinality(PendingPlaces(id)) + TimesConsumed(id)
              = IF \E r \in Published : r.id = id THEN 1 ELSE 0
    /\ \A t \in Threads :
          (th[t].pc = "consume_exit"
              /\ \A i \in 1..Len(th[t].before) : th[t].before[i] = <<>>)
              => th[t].messages = <<>>

\* two competing consumers: a consume call has returned a record and another
\* consume call is about to return another record
C3_Witness ==
    \E t \in Threads :
        /\ th[t].pc = "consume_return"
        /\ th[t].messages # <<>>
        /\ \E r \in Published : TimesReturned(r.id) = 1 /\ InFlightPlaces(r.id) = {}
        /\ Len(appendLog) = MaxRecords

\* C4 as stated: of two records of one partition, the later published is
\* never returned by a consume call that completes before the consume call
\* returning the earlier one, and a call returning both returns them in the
\* order of publication.
C4_FifoByCompletion ==
    /\ \A i, j \in 1..Len(appendLog) :
          (i < j /\ SamePartition(appendLog[i], appendLog[j])
                 /\ Returned(appendLog[j]))
              => Returned(appendLog[i])
    /\ \A t \in Threads : InPublishOrder(th[t].messages)

\* C4 amended: of two records of one partition, the later published is never
\* removed from the log by a consume call before the earlier one is removed
\* (the calls are ordered by their critical sections, not by their returns);
\* a call removing both holds them in the order of publication, and the
\* records left in a log stand in the order of publication.
C4_FifoByRemoval ==
    /\ \A i, j \in 1..Len(appendLog) :
          (i < j /\ SamePartition(appendLog[i], appendLog[j])
                 /\ ~Pending(appendLog[j]))
              => ~Pending(appendLog[i])
    /\ \A t \in Threads : InPublishOrder(th[t].messages)
    /\ \A name \in DOMAIN topics : \A i \in 1..Len(topics[name].messages) :
          InPublishOrder(topics[name].messages[i])

\* two competing consume calls have each removed one of two records of one
\* partition, and neither has returned yet
C4_Witness ==
    \E i, j \in 1..Len(appendLog) : \E ta, tb \in Threads :
        /\ i < j /\ ta # tb
        /\ SamePartition(appendLog[i], appendLog[j])
        /\ InFlightPlaces(appendLog[i].id) = {<<ta, 1>>}
        /\ InFlightPlaces(appendLog[j].id) = {<<tb, 1>>}
        /\ th[ta].pc = "consume_return" /\ th[tb].pc = "consume_return"

\* C5: two records with the same key published to the same topic are given
\* the same partition, which is hash(key) modulo the partition count of the
\* topic, whatever happens between the two publishes.
C5_PartitionDeterminism ==
    /\ \A r1, r2 \in Published :
          (r1.topic = r2.topic /\ r1.key = r2.key) => r1.partition = r2.partition
    /\ \A r \in Published :
          /\ r.topic \in DOMAIN topics
          /\ topics[r.topic].partitions > 0
          /\ (PyHash(r.key) - r.partition) % topics[r.topic].partitions = 0

\* two records with one key went to partition 1 of a topic of two partitions,
\* and the first was consumed and returned in between
C5_Witness ==
    \E i, j \in 1..Len(appendLog) :
        /\ i < j
        /\ appendLog[i].topic = appendLog[j].topic
        /\ appendLog[i].key = appendLog[j].key
        /\ appendLog[j].partition = 1
        /\ topics[appendLog[j].topic].partitions = 2
        /\ Returned(appendLog[i])
        /\ Pending(appendLog[j])

\* C6: every record stored in a partition log has a partition field within
\* the partition count of the topic and sits in the log of that index.
C6_StoredInOwnPartition ==
    \A name \in DOMAIN topics : \A i \in 1..Len(topics[name].messages) :
        \A j \in 1..Len(topics[name].messages[i]) :
            LET r == topics[name].messages[i][j] IN
            /\ 0 <= r.partition
            /\ r.partition < topics[name].partitions
            /\ r.partition = i - 1

\* both logs of a topic of two partitions hold a record
C6_Witness ==
    \E name \in DOMAIN topics :
        /\ topics[name].partitions = 2
        /\ topics[name].messages[1] # <<>>
        /\ topics[name].messages[2] # <<>>

\* C7: every topic has a partition count of at least 1 and exactly that many
\* partition logs.
C7_PartitionCountAtLeastOne ==
    \A name \in DOMAIN topics :
        /\ topics[name].partitions >= 1
        /\ Len(topics[name].messages) = topics[name].partitions

\* C8: create_topic for a name that exists is a no-op: it leaves the
\* partition count of the topic, the records pending in every partition and
\* the registered consumers as they are and raises no error; and a topic
\* that exists exists in every later state, with the same partition count
\* and the same number of logs.
C8_CreateTopicIdempotent ==
    [][ /\ \A name \in DOMAIN topics :
              /\ name \in DOMAIN topics'
              /\ topics'[name].partitions = topics[name].partitions
              /\ Len(topics'[name].messages) = Len(topics[name].messages)
        /\ \A t \in Threads :
              (th[t].pc = "create_body" /\ th'[t] # th[t]
                  /\ th[t].topic \in DOMAIN topics)
                  => /\ topics' = topics
                     /\ consumers' = consumers
                     /\ th'[t].pc = "create_exit"
      ]_vars

\* a create_topic call with another partition count has just found its topic
\* to exist, with a record pending and a consumer registered
C8_Witness ==
    \E t \in Threads :
        /\ th[t].pc = "create_exit"
        /\ th[t].caller = "thread"
        /\ ~th[t].missing
        /\ th[t].partitions # topics[th[t].topic].partitions
        /\ SumLen(topics[th[t].topic].messages) > 0
        /\ th[t].topic \in DOMAIN consumers
        /\ consumers[th[t].topic] # <<>>

RECURSIVE HeadsOf(_, _)
\* the first min(n, length) records of every log, one log after the other
HeadsOf(logs, n) ==
    IF logs = <<>> THEN <<>>
    ELSE SubSeq(Head(logs), 1, Min(n, Len(Head(logs)))) \o HeadsOf(Tail(logs), n)

\* C9: for a known topic and max_messages = n >= 0, consume removes and
\* returns the first min(n, pending) records of every partition, joined in
\* the order of the partitions; it returns at most n * partition_count
\* records and leaves in every partition its former tail, in order.
C9_ConsumeTakesHeadsPerPartition ==
    \A t \in Threads :
        (th[t].pc = "consume_exit" /\ th[t].topic \in DOMAIN topics /\ th[t].n >= 0)
            => LET was == th[t].before
                   now == topics[th[t].topic].messages
                   n == th[t].n
               IN /\ Len(now) = Len(was)
                  /\ th[t].messages = HeadsOf(was, n)
                  /\ Len(th[t].messages) <= n * topics[th[t].topic].partitions
                  /\ \A i \in 1..Len(was) :
                        now[i] = SubSeq(was[i], Min(n, Len(was[i])) + 1, Len(was[i]))

\* a consume call with max_messages = 1 took a record from each of two
\* partitions, two records in all
C9_Witness ==
    \E t \in Threads :
        /\ th[t].pc = "consume_exit"
        /\ th[t].n = 1
        /\ Len(th[t].messages) = 2
        /\ th[t].messages[1].partition = 0
        /\ th[t].messages[2].partition = 1

\* the records of topic name published so far
PublishedTo(name) == {r \in Published : r.topic = name}

\* how many records of topic name the consume calls have taken so far
ConsumedFrom(name) ==
    Cardinality(UNION {{<<id, k>> : k \in 1..TimesConsumed(id)} :
                          id \in {r.id : r \in PublishedTo(name)}})

\* C10: a get_topic_stats snapshot reports every topic, with its partition
\* count and with a total that is the sum of the lengths of its logs at one
\* instant (the one at which the call leaves the lock); the total is never
\* negative and is the number of records published to the topic minus the
\* number of records consume took from it.
C10_StatsSnapshot ==
    \A t \in Threads :
        th[t].pc = "stats_exit" =>
            /\ DOMAIN th[t].stats = DOMAIN topics
            /\ \A name \in DOMAIN topics :
                  LET s == th[t].stats[name] IN
                  /\ s.partitions = topics[name].partitions
                  /\ s.total_messages = SumLen(topics[name].messages)
                  /\ s.total_messages >= 0
                  /\ s.total_messages =
                        Cardinality(PublishedTo(name)) - ConsumedFrom(name)

\* a snapshot taken while another thread waits for the lock: it reports a
\* topic with one record pending after another record was consumed from it
C10_Witness ==
    \E t, u \in Threads : \E name \in DOMAIN topics :
        /\ th[t].pc = "stats_exit"
        /\ th[t].stats[name].total_messages = 1
        /\ ConsumedFrom(name) = 1
        /\ th[u].pc \in {"publish_acquire", "consume_acquire"}

\* a fault of publish: the modulo by a partition count of 0, or no log at
\* the index of the partition
PublishFaults(t) ==
    \/ topics[th[t].topic].partitions = 0
    \/ topics[th[t].topic].messages = <<>>

\* C11: publish raises nothing to its caller. Whenever the modulo or the
\* index of the log fails (the topic has a partition count with no valid
\* index), publish goes on to its return with the value False, the return
\* releases the lock, and from the acquisition of the lock to the return no
\* partition log of any topic changes: while a thread is inside the with
\* block of publish the logs change only by its own successful append.
C11_PublishFaultReturnsFalse ==
    [][\A t \in Threads :
          /\ (th[t].pc = "publish_append" /\ th'[t] # th[t] /\ PublishFaults(t))
                 => /\ th'[t].pc = "publish_exit"
                    /\ th'[t].ok = FALSE
                    /\ lock' = t
          /\ (th[t].pc = "publish_exit" /\ th'[t] # th[t] /\ ~th[t].ok)
                 => /\ th'[t] = IdleFrame
                    /\ lock = t
                    /\ lock' = NoThread
          /\ (th[t].pc \in {"publish_check", "publish_append", "publish_exit"}
                 /\ ~(th[t].pc = "publish_append" /\ th'[t].ok))
                 => topics' = topics
      ]_vars

\* a publish to a topic created with 0 partitions is about to return False
\* while another topic holds a record and another thread waits for the lock
C11_Witness ==
    \E t, u \in Threads :
        /\ th[t].pc = "publish_exit"
        /\ ~th[t].ok
        /\ topics[th[t].topic].partitions = 0
        /\ appendLog # <<>>
        /\ Pending(appendLog[1])
        /\ th[u].pc \in {"publish_acquire", "consume_acquire"}

\* C19: consume for a name that is not a topic returns the empty list and
\* raises nothing, and changes nothing in the broker: it creates no topic,
\* registers no consumer and leaves every partition log as it is.
C19_ConsumeUnknownTopic ==
    [][\A t \in Threads :
          /\ (th[t].pc = "consume_acquire" /\ th'[t] # th[t]
                 /\ th'[t].topic \notin DOMAIN topics)
                 => /\ th'[t].pc = "consume_exit"
                    /\ th'[t].messages = <<>>
                    /\ broker' = broker
          /\ (th[t].pc = "consume_exit" /\ th'[t] # th[t]
                 /\ th[t].topic \notin DOMAIN topics)
                 => /\ th'[t].pc = "consume_return"
                    /\ th'[t].messages = <<>>
                    /\ broker' = broker
      ]_vars

\* a consume call for an unknown name leaves the lock while the other topic
\* holds a record
C19_Witness ==
    \E t \in Threads :
        /\ th[t].pc = "consume_exit"
        /\ th[t].topic \notin DOMAIN topics
        /\ th[t].messages = <<>>
        /\ \E r \in Published : Pending(r)

\* C20: a consumer registration is never lost: a handle that is in the
\* registry of a topic is in it in every later state, whatever create_topic
\* and add_consumer calls run, so that the consumer count of
\* get_topic_stats never falls below the number of registrations.
C20_RegistrationsNeverLost ==
    [][\A name \in DOMAIN consumers : \A i \in 1..Len(consumers[name]) :
          /\ name \in DOMAIN consumers'
          /\ \E j \in 1..Len(consumers'[name]) :
                consumers'[name][j] = consumers[name][i]
      ]_vars

\* the record with this id, if it stands in a log of topic name
StoredAs(name, id) ==
    {r \in Published : r.id = id /\ r.topic = name /\ Pending(r)}

\* C12: send_batch is best-effort. When it returns it has attempted every
\* item of the list, in the order of the list, item i with key key_<i>
\* (whether or not the publish of an earlier item failed); the count it
\* returns is the number of items whose publish returned True; and, nothing
\* being consumed, every such item is pending on the topic while no failed
\* item is in any log.
C12_SendBatchBestEffort ==
    \A t \in Threads :
        client[t].pc = "batch_return" =>
            LET done == client[t].done IN
            /\ Len(done) = client[t].count
            /\ \A i, j \in 1..Len(done) : i < j => done[i].id < done[j].id
            /\ client[t].sent = Cardinality({i \in 1..Len(done) : done[i].ok})
            /\ \A i \in 1..Len(done) :
                  IF done[i].ok
                  THEN \E r \in StoredAs(client[t].topic, done[i].id) :
                          r.key = BatchKeys[i] /\ r.value = i - 1
                  ELSE \A r \in Published : r.id # done[i].id

\* a batch of two items is about to return 0: the publish of the first item
\* failed, the second item was attempted all the same and failed too
C12_Witness ==
    \E t \in Threads :
        /\ client[t].pc = "batch_return"
        /\ client[t].count = 2
        /\ ~client[t].done[1].ok
        /\ ~client[t].done[2].ok
        /\ client[t].sent = 0

\* C13: cooperative stop. For a consumer for which a thread was started on
\* start_consuming, once stop_consuming has been called the running flag is
\* False and stays False (so that the poll loop leaves at its next test of
\* the flag), whether stop_consuming runs before or after the first
\* statement of the started thread.
C13_StopIsFinal ==
    \A c \in ConsumerHandles :
        (cons[c].started /\ cons[c].stopped) => ~cons[c].running

\* the records that the poll loop of consumer c has received and has still
\* before it in the list it is going through (the one the handler is
\* working on included)
Ahead(c) ==
    UNION {{client[w].inbox[k].id :
               k \in (client[w].i + 1)..Len(client[w].inbox)} :
           w \in {u \in Workers : client[u].pc \in {"handle", "handle_send"}
                                     /\ client[u].consumer = c}}

\* C14: with a handler installed, the poll loop calls the handler exactly
\* once for every record consume returned to it, in the order received, and
\* a fault of the handler on one record is caught without ending the loop
\* and without keeping the other records of the sweep from the handler: the
\* calls of the handler are, in order, the records received except those
\* the loop has still before it.
C14_HandlerCalledOncePerRecord ==
    \A c \in ConsumerHandles :
        cons[c].handler = "user" =>
            /\ Len(handled[c]) + Cardinality(Ahead(c)) = Len(delivered[c])
            /\ \A i \in 1..Len(handled[c]) : handled[c][i].id = delivered[c][i]

\* the consumers whose subscription set holds topic name
SubscribersOf(name) ==
    {c \in ConsumerHandles : name \in cons[c].subscribed_topics}

\* C18: subscribe is idempotent: a consumer that subscribes to a topic again
\* is registered no second time, so that the registry of a topic, and the
\* consumer count get_topic_stats reports for it, never holds more entries
\* than there are consumers subscribed to the topic.
C18_SubscribeIdempotent ==
    \A name \in DOMAIN consumers :
        /\ Len(consumers[name]) <= Cardinality(SubscribersOf(name))
        /\ name \in DOMAIN topics =>
              TopicStats(name).consumers <= Cardinality(SubscribersOf(name))

\* the poll loops that are going through consumer c
LoopsOf(c) == {w \in Workers : client[w].pc # "none" /\ client[w].consumer = c}

\* record r is the republication of record m by the processor of consumer c
Republication(c, m, r) ==
    /\ r.topic = cons[c].output
    /\ r.key = m.key
    /\ r.value = Transform(m.value)

\* C16: a fault of the transform function, or a failure of the republish
\* step, of a processor ends the handling of that record only: the poll loop
\* of the processor keeps running, every record it has consumed is handed to
\* the handler in the order received, none is dropped because another one
\* failed, and every record whose republication was stored is on the output
\* topic with the key of the record and the transformed payload.
C16_ProcessorFaultIsolation ==
    \A c \in ConsumerHandles :
        cons[c].handler = "processor" =>
            /\ Len(handled[c]) + Cardinality(Ahead(c)) = Len(delivered[c])
            /\ \A i \in 1..Len(handled[c]) :
                  /\ handled[c][i].id = delivered[c][i]
                  /\ handled[c][i].ok <=> handled[c][i].out # 0
                  /\ handled[c][i].stored =>
                        \E m \in Published, r \in Published :
                            /\ m.id = handled[c][i].id
                            /\ r.id = handled[c][i].out
                            /\ Republication(c, m, r)
            /\ (cons[c].started /\ cons[c].running) => LoopsOf(c) # {}

\* the transform function failed on the first record a processor consumed,
\* and the next record was transformed, republished and stored
C16_Witness ==
    \E c \in ConsumerHandles :
        /\ cons[c].handler = "processor"
        /\ Len(handled[c]) = 2
        /\ ~handled[c][1].ok
        /\ handled[c][2].stored
        /\ LoopsOf(c) # {}

\* the consumers of the bookkeeping of the pipeline
Bookkept == {processors[name].consumer : name \in DOMAIN processors}

\* a processor that was started and whose name now belongs to another one
Displaced(c) == cons[c].started /\ c \notin Bookkept

\* C17: registering a processor under a name that is taken puts the new
\* processor in the place of the old one in the bookkeeping (the entries of
\* the other names stay) and touches neither the consumer nor the poll loop
\* of any other processor; a consumer is stopped only while it is in the
\* bookkeeping, and a poll loop ends only when its consumer was stopped: the
\* loop of a displaced processor goes on, stop_all_processors or not.
C17_LastWriteWins ==
    [][/\ \A t \in Mains :
             (client[t].pc = "addp_register" /\ client'[t].pc # "addp_register")
             => /\ processors'[client[t].name].consumer = client[t].consumer
                /\ DOMAIN processors' = DOMAIN processors \cup {client[t].name}
                /\ \A name \in DOMAIN processors \ {client[t].name} :
                      processors'[name] = processors[name]
                /\ \A d \in ConsumerHandles \ {client[t].consumer} :
                      /\ cons'[d] = cons[d]
                      /\ \A w \in LoopsOf(d) :
                            client'[w] = client[w] /\ th'[w] = th[w]
       /\ \A c \in ConsumerHandles :
             (cons'[c].stopped /\ ~cons[c].stopped) => c \in Bookkept
       /\ \A w \in Workers :
             (client[w].pc # "none" /\ client'[w].pc = "none")
             => cons[client[w].consumer].stopped
      ]_vars

\* stop_all_processors has returned and the loop of the processor of the
\* bookkeeping has ended, while the processor it displaced was never
\* stopped and its poll loop is inside a consume call on its input topic
C17_Witness ==
    \E c \in ConsumerHandles, d \in Bookkept :
        /\ Displaced(c)
        /\ cons[d].stopped
        /\ LoopsOf(d) = {}
        /\ \A t \in Mains : client[t].pc = "none"
        /\ ~cons[c].stopped
        /\ cons[c].running
        /\ \E w \in LoopsOf(c) :
              /\ th[w].pc = "consume_loop"
              /\ th[w].topic \in cons[c].subscribed_topics

\* the ids a record can have: those of the records published by the threads
\* and of their republications
RecordIds == 1..(2 * MaxRecords)

\* the poll loop of the processor of consumer c has received record id
ConsumedBy(c, id) ==
    /\ cons[c].handler = "processor"
    /\ \E i \in 1..Len(delivered[c]) : delivered[c][i] = id

\* the transform function of the processor of consumer c failed on record id
TransformFailed(c, id) ==
    \E i \in 1..Len(handled[c]) : handled[c][i].id = id /\ ~handled[c][i].ok

\* a record with the key and the transformed payload of record id is
\* published on the output topic of the processor of consumer c
RepublishedOn(c, id) ==
    \E m \in Published, r \in Published :
        m.id = id /\ Republication(c, m, r)

\* C15: every record that the poll loop of a processor has consumed from
\* the input topic, and on which the transform function does not fail,
\* leads, unless the processor is stopped, to a record with the same key and
\* the transformed payload being published on the output topic; and every
\* record a processor publishes is the republication, on its output topic,
\* of the record its handler is working on, which it has consumed from the
\* input topic.
C15_PipelineEndToEnd ==
    /\ \A c \in ConsumerHandles, id \in RecordIds :
          (ConsumedBy(c, id) /\ ~cons[c].stopped)
          ~> (TransformFailed(c, id) \/ RepublishedOn(c, id) \/ cons[c].stopped)
    /\ [][\A w \in Workers :
             (lock = w /\ Len(appendLog') > Len(appendLog))
             => /\ client[w].pc = "handle_send"
                /\ client[w].i < Len(client[w].inbox)
                /\ ConsumedBy(client[w].consumer,
                              client[w].inbox[client[w].i + 1].id)
                /\ Republication(client[w].consumer,
                                 client[w].inbox[client[w].i + 1],
                                 appendLog'[Len(appendLog')])
         ]_vars

\* the republications of the processor of consumer c that were stored: the
\* calls of its handler whose publish returned True
Republished(c) ==
    {handled[c][i] : i \in {k \in 1..Len(handled[c]) : handled[c][k].stored}}

\* the key of the published record id
KeyOf(id) == appendLog[PubIndex(id)].key

\* the records a and b stand, a before b, in one partition log of topic name
BeforeInLog(name, a, b) ==
    \E p \in PendingPlaces(a), q \in PendingPlaces(b) :
        /\ p[1] = name /\ q[1] = name
        /\ p[2] = q[2]
        /\ p[3] < q[3]

\* C21: per-key order is preserved through a processor. With one processor
\* reading the input topic and nobody consuming the output topic, two
\* records of one key that were published to the input topic one before the
\* other, and whose republications were both stored, have their
\* republications in one partition log of the output topic, in that order,
\* whatever the partition counts of the two topics and however the
\* publishers and the poll loop interleave.
C21_PerKeyOrderThroughProcessor ==
    \A c \in ConsumerHandles :
        cons[c].handler = "processor" =>
            \A e1, e2 \in Republished(c) :
                (/\ KeyOf(e1.id) = KeyOf(e2.id)
                 /\ PubIndex(e1.id) < PubIndex(e2.id))
                => BeforeInLog(cons[c].output, e1.out, e2.out)

\* two records of one key went through a processor whose output topic has
\* two partitions, and their republications lie in one log of it
C21_Witness ==
    \E c \in ConsumerHandles :
        /\ cons[c].handler = "processor"
        /\ cons[c].output \in DOMAIN topics
        /\ topics[cons[c].output].partitions = 2
        /\ \E e1, e2 \in Republished(c) :
              /\ e1.id # e2.id
              /\ KeyOf(e1.id) = KeyOf(e2.id)
              /\ BeforeInLog(cons[c].output, e1.out, e2.out)
====
